---- MODULE Spec2Model ----
(***************************************************************************)
(* Model of smolagents/memory.py: the memory steps (ActionStep,            *)
(* PlanningStep, TaskStep, SystemPromptStep, CriticStep), their dict() and *)
(* to_messages() renderings, the AgentMemory container and the             *)
(* patch_action_step() extension that wraps ActionStep.to_messages.        *)
(*                                                                         *)
(* Encoding of Python values:                                              *)
(*  - a str is a sequence of one-character strings; the literal pieces of  *)
(*    an f-string are kept as single tokens, so a text is the sequence of  *)
(*    its literal tokens and of the characters of its interpolated values; *)
(*  - an Optional value is a sequence of length 0 (None) or 1 (the value); *)
(*  - a call returns [exc, val]: exc = "" and val the returned list, or    *)
(*    exc the name of the exception raised and val the empty list.         *)
(***************************************************************************)
EXTENDS Integers, Sequences, FiniteSets, TLC

VARIABLES
    installs,   \* how many times patch_action_step() has run on the class
    step,       \* the step object the caller holds
    memory,     \* the AgentMemory: [system_prompt, steps]
    ret,        \* what the last call returned or raised
    lastOp,     \* the last call and its arguments
    objs,       \* the ActionStep instances alive, critic_steps held by reference
    heap,       \* the list objects: heap[a] is the content of the list at a
    failed      \* a rendering of step has raised out of a critic step

vars == <<installs, step, memory, ret, lastOp, objs, heap, failed>>

----------------------------------------------------------------------------
(* Bounds of the model *)

MaxInstalls == 2

MaxCritics == 2

MaxSteps == 2

MaxInstances == 2

(* Feedback lengths within Margin of the truncation limit are tried *)
Margin == 3

(* feedback[:200] and len(feedback) > 200 *)
TruncLimit == 200

----------------------------------------------------------------------------
(* Python values *)

None == <<>>

Some(x) == <<x>>

IsNone(o) == Len(o) = 0

Val(o) == o[1]

Returned(v) == [exc |-> "", val |-> v]

Raised(e) == [exc |-> e, val |-> <<>>]

NoCall == [exc |-> "", val |-> <<>>]

Whitespace == {" ", "\n", "\t"}

RECURSIVE lstrip(_)
lstrip(s) ==
    IF s # <<>> /\ Head(s) \in Whitespace THEN lstrip(Tail(s)) ELSE s

RECURSIVE rstrip(_)
rstrip(s) ==
    IF s # <<>> /\ s[Len(s)] \in Whitespace
    THEN rstrip(SubSeq(s, 1, Len(s) - 1))
    ELSE s

(* str.strip() *)
strip(s) == rstrip(lstrip(s))

(* s[:n] *)
Slice(s, n) == SubSeq(s, 1, IF Len(s) < n THEN Len(s) ELSE n)

RECURSIVE Concat(_)
Concat(ss) == IF ss = <<>> THEN <<>> ELSE Head(ss) \o Concat(Tail(ss))

(* The roles of smolagents.models.MessageRole, a str enum *)
MessageRole ==
    [SYSTEM |-> "system", USER |-> "user", ASSISTANT |-> "assistant",
     TOOL_RESPONSE |-> "tool-response"]

(* Message content: a list of parts, a plain str, or a raw message list *)
TextPart(text) == [type |-> "text", text |-> text, image |-> ""]

ImagePart(image) == [type |-> "image", text |-> <<>>, image |-> image]

PartsContent(parts) == [form |-> "list", parts |-> parts, str |-> <<>>, raw |-> <<>>]

StrContent(s) == [form |-> "str", parts |-> <<>>, str |-> s, raw |-> <<>>]

RawContent(msgs) == [form |-> "raw", parts |-> <<>>, str |-> <<>>, raw |-> msgs]

Message(role, content) == [role |-> role, content |-> content]

(* The text a message carries: its str content or the text of its text parts *)
MessageText(m) ==
    IF m.content.form = "str" THEN m.content.str
    ELSE Concat([i \in 1..Len(m.content.parts) |-> m.content.parts[i].text])

----------------------------------------------------------------------------
(* ToolCall *)

ToolCall(name, arguments, id) == [name |-> name, arguments |-> arguments, id |-> id]

(* smolagents.utils.make_json_serializable: JSON-safe values are kept, a    *)
(* value with no JSON form becomes a placeholder                            *)
make_json_serializable(x) == IF x = "<object>" THEN "<not serializable>" ELSE x

ToolCall_dict(tc) ==
    [id |-> tc.id, type |-> "function",
     function |-> [name |-> tc.name, arguments |-> make_json_serializable(tc.arguments)]]

(* str() of a ToolCall.dict() *)
DictStr(d) ==
    <<"{'id': '">> \o d.id \o <<"', 'type': 'function', 'function': {'name': '">>
    \o d.function.name \o <<"', 'arguments': ", d.function.arguments, "}}">>

RECURSIVE JoinDicts(_)
JoinDicts(ds) ==
    IF ds = <<>> THEN <<>>
    ELSE IF Len(ds) = 1 THEN DictStr(ds[1])
    ELSE DictStr(ds[1]) \o <<", ">> \o JoinDicts(Tail(ds))

(* str([tc.dict() for tc in tool_calls]) *)
ToolCallsStr(tcs) ==
    <<"[">> \o JoinDicts([i \in 1..Len(tcs) |-> ToolCall_dict(tcs[i])]) \o <<"]">>

----------------------------------------------------------------------------
(* AgentError of smolagents.utils: str() is its message, dict() its record *)

AgentError(message) == [type |-> "AgentError", message |-> message]

AgentError_str(e) == e.message

AgentError_dict(e) == [type |-> e.type, message |-> e.message]

----------------------------------------------------------------------------
(* Step records.  A step carries its class in the field kind. *)

(* ActionStep.__init__ generated by @dataclass; the instance has no         *)
(* critic_steps attribute (an Optional that is None) until a wrapped         *)
(* __init__ sets it.                                                         *)
ActionStep_init(model_input_messages, tool_calls, step_number, error, model_output, observations, observations_images, action_output) ==
    [kind |-> "ActionStep",
     model_input_messages |-> model_input_messages,
     tool_calls |-> tool_calls,
     start_time |-> None,
     end_time |-> None,
     step_number |-> step_number,
     error |-> error,
     duration |-> None,
     model_output_message |-> None,
     model_output |-> model_output,
     observations |-> observations,
     observations_images |-> observations_images,
     action_output |-> action_output,
     critic_steps |-> None]

PlanningStep(model_input_messages, facts, plan) ==
    [kind |-> "PlanningStep",
     model_input_messages |-> model_input_messages,
     model_output_message_facts |-> None,
     facts |-> facts,
     model_output_message_plan |-> None,
     plan |-> plan]

TaskStep(task, task_images) ==
    [kind |-> "TaskStep", task |-> task, task_images |-> task_images]

SystemPromptStep(system_prompt) ==
    [kind |-> "SystemPromptStep", system_prompt |-> system_prompt]

(* CriticStep.__init__ *)
CriticStep(start_time, end_time, duration, model_input_messages, model_output_message, feedback, accepted, now) ==
    [kind |-> "CriticStep",
     start_time |-> IF ~IsNone(start_time) THEN start_time ELSE Some(now),
     end_time |-> end_time,
     duration |-> duration,
     model_input_messages |->
         IF ~IsNone(model_input_messages) THEN Val(model_input_messages) ELSE <<>>,
     model_output_message |-> model_output_message,
     feedback |-> feedback,
     accepted |-> accepted]

(* Truth value of an Optional list or dict: None and the empty one are falsy *)
Truthy(o) == ~IsNone(o) /\ Len(Val(o)) > 0

----------------------------------------------------------------------------
(* dict() *)

(* The fields dataclasses.fields() finds on a class: those of the @dataclass *)
(* declarations.  CriticStep is declared without @dataclass, so it has the   *)
(* fields of MemoryStep, which declares none.                                *)
DataclassFields(kind) ==
    CASE kind = "PlanningStep" ->
             {"model_input_messages", "model_output_message_facts", "facts",
              "model_output_message_plan", "plan"}
      [] kind = "TaskStep" -> {"task", "task_images"}
      [] kind = "SystemPromptStep" -> {"system_prompt"}
      [] kind = "CriticStep" -> {}
      [] OTHER -> {}

(* MemoryStep.dict: asdict(self) *)
MemoryStep_dict(self) == [k \in DataclassFields(self.kind) |-> self[k]]

ActionStep_dict(self) ==
    [model_input_messages |-> self.model_input_messages,
     tool_calls |->
         IF Truthy(self.tool_calls)
         THEN [i \in 1..Len(Val(self.tool_calls)) |-> ToolCall_dict(Val(self.tool_calls)[i])]
         ELSE <<>>,
     start_time |-> self.start_time,
     end_time |-> self.end_time,
     step |-> self.step_number,
     error |-> IF ~IsNone(self.error) THEN Some(AgentError_dict(Val(self.error))) ELSE None,
     duration |-> self.duration,
     model_output_message |-> self.model_output_message,
     model_output |-> self.model_output,
     observations |-> self.observations,
     action_output |-> make_json_serializable(self.action_output)]

(* step.dict(), dispatched on the class of the step *)
Dict(self) ==
    IF self.kind = "ActionStep" THEN ActionStep_dict(self) ELSE MemoryStep_dict(self)

----------------------------------------------------------------------------
(* to_messages() *)

RetrySuffix ==
    "\nNow let's retry: take care not to repeat previous errors! If you have retried several times, try a completely different approach.\n"

(* ActionStep.to_messages as the class declares it *)
ActionStep_to_messages(self, summary_mode, show_model_input_messages) ==
    LET tcs == self.tool_calls
        input ==
            IF ~IsNone(self.model_input_messages) /\ show_model_input_messages
            THEN <<Message(MessageRole.SYSTEM, RawContent(Val(self.model_input_messages)))>>
            ELSE <<>>
        output ==
            IF ~IsNone(self.model_output) /\ ~summary_mode
            THEN <<Message(MessageRole.ASSISTANT,
                           PartsContent(<<TextPart(strip(Val(self.model_output)))>>))>>
            ELSE <<>>
        calls ==
            IF ~IsNone(tcs)
            THEN <<Message(MessageRole.ASSISTANT,
                           PartsContent(<<TextPart(<<"Calling tools:\n">>
                                                   \o ToolCallsStr(Val(tcs)))>>))>>
            ELSE <<>>
        obs ==
            IF ~IsNone(self.observations)
            THEN <<Message(MessageRole.TOOL_RESPONSE,
                           PartsContent(<<TextPart(<<"Call id: ">> \o Val(tcs)[1].id
                                                   \o <<"\nObservation:\n">>
                                                   \o Val(self.observations))>>))>>
            ELSE <<>>
        error_message ==
            <<"Error:\n">> \o AgentError_str(Val(self.error)) \o <<RetrySuffix>>
        message_content ==
            (IF Truthy(tcs) THEN <<"Call id: ">> \o Val(tcs)[1].id \o <<"\n">> ELSE <<>>)
            \o error_message
        err ==
            IF ~IsNone(self.error)
            THEN <<Message(MessageRole.TOOL_RESPONSE,
                           PartsContent(<<TextPart(message_content)>>))>>
            ELSE <<>>
        images ==
            IF Truthy(self.observations_images)
            THEN <<Message(MessageRole.USER,
                           PartsContent(<<TextPart(<<"Here are the observed images:">>)>>
                               \o [i \in 1..Len(Val(self.observations_images)) |->
                                      ImagePart(Val(self.observations_images)[i])]))>>
            ELSE <<>>
    IN  IF ~IsNone(self.observations) /\ IsNone(tcs)
        THEN Raised("TypeError")      \* None[0]
        ELSE IF ~IsNone(self.observations) /\ Val(tcs) = <<>>
        THEN Raised("IndexError")     \* [][0]
        ELSE Returned(input \o output \o calls \o obs \o err \o images)

PlanningStep_to_messages(self, summary_mode) ==
    <<Message(MessageRole.ASSISTANT,
              PartsContent(<<TextPart(<<"[FACTS LIST]:\n">> \o strip(self.facts))>>))>>
    \o (IF ~summary_mode
        THEN <<Message(MessageRole.ASSISTANT,
                       PartsContent(<<TextPart(<<"[PLAN]:\n">> \o strip(self.plan))>>))>>
        ELSE <<>>)

TaskStep_to_messages(self, summary_mode) ==
    <<Message(MessageRole.USER,
              PartsContent(<<TextPart(<<"New task:\n">> \o self.task)>>
                           \o (IF Truthy(self.task_images)
                               THEN [i \in 1..Len(Val(self.task_images)) |->
                                        ImagePart(Val(self.task_images)[i])]
                               ELSE <<>>)))>>

SystemPromptStep_to_messages(self, summary_mode) ==
    IF summary_mode THEN <<>>
    ELSE <<Message(MessageRole.SYSTEM,
                   PartsContent(<<TextPart(strip(self.system_prompt))>>))>>

(* A summary that truncates one character early *)
critic_truncates_early(self, summary_mode) ==
    IF summary_mode
    THEN LET status == IF self.accepted THEN "ACCEPTED" ELSE "REJECTED"
         IN  <<Message("assistant",
                       StrContent(<<"[Critic ", status, "] ">>
                                  \o (IF Len(self.feedback) >= TruncLimit
                                      THEN Slice(self.feedback, TruncLimit - 1) \o <<"...">>
                                      ELSE self.feedback)))>>
    ELSE IF Truthy(self.model_output_message)
         THEN <<Message("assistant", StrContent(<<"[Critic Review] ">> \o self.feedback))>>
         ELSE <<>>

CriticStep_to_messages(self, summary_mode) ==
    IF summary_mode
    THEN LET status == IF self.accepted THEN "ACCEPTED" ELSE "REJECTED"
         IN  <<Message("assistant",
                       StrContent(<<"[Critic ", status, "] ">>
                                  \o (IF Len(self.feedback) > TruncLimit
                                      THEN Slice(self.feedback, TruncLimit) \o <<"...">>
                                      ELSE self.feedback)))>>
    ELSE IF Truthy(self.model_output_message)
         THEN <<Message("assistant", StrContent(<<"[Critic Review] ">> \o self.feedback))>>
         ELSE <<>>

(* The messages of the critic steps of a list, in list order *)
RECURSIVE CriticMessages(_, _)
CriticMessages(critic_steps, summary_mode) ==
    IF critic_steps = <<>> THEN <<>>
    ELSE CriticStep_to_messages(Head(critic_steps), summary_mode)
         \o CriticMessages(Tail(critic_steps), summary_mode)

(* feedback=None: str() of it is "None", len() of it raises TypeError *)
NoFeedback == <<"None">>

(* The call critic_step.to_messages(summary_mode): len(self.feedback) of    *)
(* the summary raises for a feedback that has no length                     *)
CriticStep_call(self, summary_mode) ==
    IF summary_mode /\ self.feedback = NoFeedback
    THEN Raised("TypeError")
    ELSE Returned(CriticStep_to_messages(self, summary_mode))

(* The loop over self.critic_steps: the messages extended so far are lost   *)
(* with the frame when a call raises                                        *)
RECURSIVE CriticLoop(_, _)
CriticLoop(critic_steps, summary_mode) ==
    IF critic_steps = <<>> THEN Returned(<<>>)
    ELSE LET critic_messages == CriticStep_call(Head(critic_steps), summary_mode)
             rest == CriticLoop(Tail(critic_steps), summary_mode)
         IN  IF critic_messages.exc # "" THEN critic_messages
             ELSE IF rest.exc # "" THEN rest
             ELSE Returned(critic_messages.val \o rest.val)

(* A wrapper that puts the critic messages before the original ones *)
critic_steps_first(original, self, summary_mode) ==
    IF original.exc # "" THEN original
    ELSE IF Truthy(self.critic_steps)
         THEN Returned(CriticMessages(Val(self.critic_steps), summary_mode) \o original.val)
         ELSE original

(* to_messages_with_critic_steps(self, summary_mode=False): the wrapper one  *)
(* run of patch_action_step puts around original, the result of the call    *)
(* original_to_messages(self, summary_mode)                                 *)
to_messages_with_critic_steps(original, self, summary_mode) ==
    IF original.exc # "" THEN original
    ELSE IF Truthy(self.critic_steps)
         THEN LET extended == CriticLoop(Val(self.critic_steps), summary_mode)
              IN  IF extended.exc # "" THEN extended
                  ELSE Returned(original.val \o extended.val)
         ELSE original

(* ActionStep.to_messages after n runs of patch_action_step, called with    *)
(* summary_mode positionally and show (an Optional) by keyword when given.  *)
(* The wrapper takes no show_model_input_messages parameter.                *)
RECURSIVE Patched_to_messages(_, _, _, _)
Patched_to_messages(n, self, summary_mode, show) ==
    IF n = 0
    THEN ActionStep_to_messages(self, summary_mode,
                                IF IsNone(show) THEN FALSE ELSE Val(show))
    ELSE IF ~IsNone(show)
         THEN Raised("TypeError")     \* unexpected keyword argument
         ELSE to_messages_with_critic_steps(
                  Patched_to_messages(n - 1, self, summary_mode, None),
                  self, summary_mode)

(* A wrapped __init__ that leaves the attribute unset *)
init_without_critic_steps(self) == self

(* __init_with_critic_steps: original_init, then critic_steps = [] if absent *)
init_with_critic_steps(self) ==
    IF IsNone(self.critic_steps) THEN [self EXCEPT !.critic_steps = Some(<<>>)] ELSE self

(* ActionStep(...) after n runs of patch_action_step *)
RECURSIVE Patched_init(_, _)
Patched_init(n, fresh) ==
    IF n = 0 THEN fresh ELSE init_with_critic_steps(Patched_init(n - 1, fresh))

----------------------------------------------------------------------------
(* AgentMemory *)

AgentMemory_init(system_prompt) ==
    [system_prompt |-> SystemPromptStep(system_prompt), steps |-> <<>>]

(* A reset that builds the memory anew, system prompt included *)
reset_all(self) == AgentMemory_init(<<>>)

AgentMemory_reset(self) == [self EXCEPT !.steps = <<>>]

(* A succinct dump that filters nothing *)
succinct_unfiltered(self) == [i \in 1..Len(self.steps) |-> Dict(self.steps[i])]

get_succinct_steps(self) ==
    [i \in 1..Len(self.steps) |->
        LET d == Dict(self.steps[i])
        IN  [key \in DOMAIN d \ {"model_input_messages"} |-> d[key]]]

get_full_steps(self) == [i \in 1..Len(self.steps) |-> Dict(self.steps[i])]

----------------------------------------------------------------------------
(* Inputs *)

Str_hi == <<"h", "i">>

InputMessages == <<Message(MessageRole.USER, StrContent(Str_hi))>>

TC1 == ToolCall(<<"f">>, "{}", <<"t", "c", "_", "1">>)

TC2 == ToolCall(<<"g">>, "<object>", <<"t", "c", "_", "2">>)

InputMessagesOpts == {None, Some(InputMessages)}

ToolCallsOpts == {None, Some(<<>>), Some(<<TC1>>), Some(<<TC2, TC1>>)}

ModelOutputOpts == {None, Some(<<" ", "o", "k", "\n">>)}

ObservationsOpts == {None, Some(<<"4", "2">>)}

ErrorOpts == {None, Some(AgentError(<<"b", "o", "o", "m">>))}

ImagesOpts == {None, Some(<<"img1">>)}

(* A feedback text of n characters; the character depends on the position *)
Feedback(n) == [i \in 1..n |-> IF i % 3 = 0 THEN "c" ELSE IF i % 3 = 1 THEN "a" ELSE "b"]

FeedbackLens == {0} \cup {n \in (TruncLimit - Margin)..(TruncLimit + Margin) : n >= 0}

CriticReply == <<<<"role", "assistant">>>>

Clock == {1, 2}

(* The critic steps attached to action steps *)
AttachedCritics ==
    {CriticStep(None, None, None, None, Some(CriticReply), Feedback(3), TRUE, 1),
     CriticStep(None, None, None, None, None, Feedback(3), FALSE, 1),
     CriticStep(None, None, None, None, Some(CriticReply), Feedback(TruncLimit + 1), FALSE, 1)}

Prompts == {<<" ", "p", " ">>, <<"q">>}

(* The steps a run appends to the memory and asks dict() of *)
SampleActionSteps ==
    {ActionStep_init(None, None, Some(1), None, None, None, None, "<object>"),
     ActionStep_init(Some(InputMessages), Some(<<TC2, TC1>>), Some(2),
                     Some(AgentError(<<"b", "o", "o", "m">>)), Some(<<"o", "k">>),
                     Some(<<"4", "2">>), Some(<<"img1">>), "final")}

SampleSteps ==
    {TaskStep(<<"t">>, None), TaskStep(<<"u">>, Some(<<"img1">>)),
     PlanningStep(InputMessages, <<" ", "f">>, <<"p", " ">>),
     SystemPromptStep(<<"q">>),
     CriticStep(None, None, None, Some(InputMessages), Some(CriticReply), Feedback(3), TRUE, 1)}

(* The steps other than ActionStep and CriticStep that are rendered *)
PlainSteps ==
    {s \in SampleSteps : s.kind \in {"PlanningStep", "TaskStep", "SystemPromptStep"}}
    \cup {SystemPromptStep(<<" ", "p", "\n">>)}

(* steps: List[Union[TaskStep, ActionStep, PlanningStep]] *)
MemoryKinds == {"TaskStep", "ActionStep", "PlanningStep"}

(* A call: its name, its arguments, and how many steps the memory held when  *)
(* it was made                                                              *)
Call(op, summary_mode, show) ==
    [op |-> op, summary_mode |-> summary_mode, show |-> show, held |-> Len(memory.steps)]

NoArgs(op) == Call(op, FALSE, None)

----------------------------------------------------------------------------
(* The state machine *)

(* After the import of the module, which runs patch_action_step() once *)
Init ==
    /\ installs = 1
    /\ step = Patched_init(1, ActionStep_init(None, None, None, None, None, None, None, "final"))
    /\ memory = AgentMemory_init(<<" ", "p", " ">>)
    /\ ret = NoCall
    /\ lastOp = NoArgs("import")
    /\ objs = <<>>
    /\ heap = <<>>
    /\ failed = FALSE

(* patch_action_step() *)
PatchActionStep ==
    /\ installs < MaxInstalls
    /\ installs' = installs + 1
    /\ ret' = NoCall
    /\ lastOp' = NoArgs("patch_action_step")
    /\ UNCHANGED <<step, memory, objs, heap, failed>>

(* step = ActionStep(step_number=1, action_output="final") *)
NewActionStep ==
    /\ step' = Patched_init(installs,
                            ActionStep_init(None, None, Some(1), None, None, None, None, "final"))
    /\ ret' = NoCall
    /\ lastOp' = NoArgs("ActionStep")
    /\ UNCHANGED <<installs, memory, objs, heap, failed>>

(* step.<field> = value: the producer fills the step in as the cycle goes on *)
SetField ==
    /\ step.kind = "ActionStep"
    /\ \/ \E v \in InputMessagesOpts : step' = [step EXCEPT !.model_input_messages = v]
       \/ \E v \in ToolCallsOpts : step' = [step EXCEPT !.tool_calls = v]
       \/ \E v \in ModelOutputOpts : step' = [step EXCEPT !.model_output = v]
       \/ \E v \in ObservationsOpts : step' = [step EXCEPT !.observations = v]
       \/ \E v \in ErrorOpts : step' = [step EXCEPT !.error = v]
       \/ \E v \in ImagesOpts : step' = [step EXCEPT !.observations_images = v]
    /\ ret' = NoCall
    /\ lastOp' = NoArgs("setattr")
    /\ UNCHANGED <<installs, memory, objs, heap, failed>>

(* step.critic_steps.append(critic_step) *)
AppendCriticStep ==
    /\ step.kind = "ActionStep"
    /\ ~IsNone(step.critic_steps)
    /\ Len(Val(step.critic_steps)) < MaxCritics
    /\ \E c \in AttachedCritics :
          step' = [step EXCEPT !.critic_steps = Some(Append(Val(step.critic_steps), c))]
    /\ ret' = NoCall
    /\ lastOp' = NoArgs("critic_steps.append")
    /\ UNCHANGED <<installs, memory, objs, heap, failed>>

(* step.to_messages(summary_mode) or                                        *)
(* step.to_messages(summary_mode, show_model_input_messages=show)           *)
ToMessages ==
    /\ step.kind = "ActionStep"
    /\ \E summary_mode \in BOOLEAN, show \in {None, Some(TRUE), Some(FALSE)} :
          /\ ret' = Patched_to_messages(installs, step, summary_mode, show)
          /\ lastOp' = Call("to_messages", summary_mode, show)
    /\ UNCHANGED <<installs, step, memory, objs, heap, failed>>

(* step = PlanningStep(...), TaskStep(...) or SystemPromptStep(...) *)
NewPlainStep ==
    /\ \E s \in PlainSteps : step' = s
    /\ ret' = NoCall
    /\ lastOp' = NoArgs("new")
    /\ UNCHANGED <<installs, memory, objs, heap, failed>>

(* step.to_messages(summary_mode) on a PlanningStep, TaskStep or            *)
(* SystemPromptStep                                                         *)
PlainToMessages ==
    /\ step.kind \in {"PlanningStep", "TaskStep", "SystemPromptStep"}
    /\ \E summary_mode \in BOOLEAN :
          /\ ret' = Returned(CASE step.kind = "PlanningStep" ->
                                     PlanningStep_to_messages(step, summary_mode)
                               [] step.kind = "TaskStep" ->
                                     TaskStep_to_messages(step, summary_mode)
                               [] OTHER -> SystemPromptStep_to_messages(step, summary_mode))
          /\ lastOp' = Call("to_messages", summary_mode, None)
    /\ UNCHANGED <<installs, step, memory, objs, heap, failed>>

Next ==
    \/ PatchActionStep \/ NewActionStep \/ SetField \/ AppendCriticStep \/ ToMessages
    \/ NewPlainStep \/ PlainToMessages

Spec == Init /\ [][Next]_vars

----------------------------------------------------------------------------
(* CriticStep on its own *)

(* step = CriticStep(feedback=..., accepted=..., model_output_message=...) *)
NewCriticStep ==
    /\ \E n \in FeedbackLens, accepted \in BOOLEAN, now \in Clock,
          mom \in {None, Some(<<>>), Some(CriticReply)} :
          step' = CriticStep(None, None, None, None, mom, Feedback(n), accepted, now)
    /\ ret' = NoCall
    /\ lastOp' = NoArgs("CriticStep")
    /\ UNCHANGED <<installs, memory, objs, heap, failed>>

(* step.to_messages(summary_mode) on a CriticStep *)
CriticToMessages ==
    /\ step.kind = "CriticStep"
    /\ \E summary_mode \in BOOLEAN :
          /\ ret' = Returned(CriticStep_to_messages(step, summary_mode))
          /\ lastOp' = Call("to_messages", summary_mode, None)
    /\ UNCHANGED <<installs, step, memory, objs, heap, failed>>

CriticNext == NewCriticStep \/ CriticToMessages

CriticSpec == Init /\ [][CriticNext]_vars

----------------------------------------------------------------------------
(* AgentMemory and dict() *)

(* step = one of the sample steps, built by its constructor *)
NewStep ==
    /\ \/ \E s \in SampleActionSteps : step' = Patched_init(installs, s)
       \/ \E s \in SampleSteps : step' = s
    /\ ret' = NoCall
    /\ lastOp' = NoArgs("new")
    /\ UNCHANGED <<installs, memory, objs, heap, failed>>

(* memory.steps.append(step) *)
AppendStep ==
    /\ step.kind \in MemoryKinds
    /\ Len(memory.steps) < MaxSteps
    /\ memory' = [memory EXCEPT !.steps = Append(@, step)]
    /\ ret' = NoCall
    /\ lastOp' = NoArgs("steps.append")
    /\ UNCHANGED <<installs, step, objs, heap, failed>>

(* memory.reset() *)
Reset ==
    /\ memory' = AgentMemory_reset(memory)
    /\ ret' = NoCall
    /\ lastOp' = NoArgs("reset")
    /\ UNCHANGED <<installs, step, objs, heap, failed>>

(* memory.get_succinct_steps() *)
GetSuccinctSteps ==
    /\ ret' = Returned(get_succinct_steps(memory))
    /\ lastOp' = NoArgs("get_succinct_steps")
    /\ UNCHANGED <<installs, step, memory, objs, heap, failed>>

(* memory.get_full_steps() *)
GetFullSteps ==
    /\ ret' = Returned(get_full_steps(memory))
    /\ lastOp' = NoArgs("get_full_steps")
    /\ UNCHANGED <<installs, step, memory, objs, heap, failed>>

(* step.dict() *)
StepDict ==
    /\ ret' = Returned(<<Dict(step)>>)
    /\ lastOp' = NoArgs("dict")
    /\ UNCHANGED <<installs, step, memory, objs, heap, failed>>

MemoryNext == NewStep \/ AppendStep \/ Reset \/ GetSuccinctSteps \/ GetFullSteps \/ StepDict

(* memory = AgentMemory(system_prompt), after the import of the module *)
MemoryInit ==
    /\ installs = 1
    /\ step = Patched_init(1, ActionStep_init(None, None, None, None, None, None, None, "final"))
    /\ \E p \in Prompts : memory = AgentMemory_init(p)
    /\ ret = NoCall
    /\ lastOp = NoArgs("import")
    /\ objs = <<>>
    /\ heap = <<>>
    /\ failed = FALSE

MemorySpec == MemoryInit /\ [][MemoryNext]_vars

----------------------------------------------------------------------------
(* ActionStep instances and their critic_steps lists *)

(* self.critic_steps = []: the address of the list object the display makes, *)
(* a new one at every evaluation                                            *)
NewList(h) == Len(h) + 1

(* The critic steps attached to instances *)
InstanceCritics == {c \in AttachedCritics : Len(c.feedback) < TruncLimit}

(* objs.append(ActionStep(step_number=n)): the list the wrapped __init__     *)
(* assigns is put on the heap and the instance holds its address            *)
ConstructInstance ==
    /\ Len(objs) < MaxInstances
    /\ LET fresh == Patched_init(installs,
                                 ActionStep_init(None, None, Some(Len(objs) + 1), None,
                                                 None, None, None, "final"))
           a == NewList(heap)
       IN  IF IsNone(fresh.critic_steps)
           THEN /\ objs' = Append(objs, fresh)
                /\ heap' = heap
           ELSE /\ objs' = Append(objs, [fresh EXCEPT !.critic_steps = Some(a)])
                /\ heap' = [b \in 1..(IF a > Len(heap) THEN a ELSE Len(heap)) |->
                               IF b = a THEN Val(fresh.critic_steps) ELSE heap[b]]
    /\ ret' = NoCall
    /\ lastOp' = NoArgs("ActionStep")
    /\ UNCHANGED <<installs, step, memory, failed>>

(* objs[i].critic_steps.append(critic_step) *)
AttachCritic ==
    /\ \E i \in 1..Len(objs), c \in InstanceCritics :
          /\ ~IsNone(objs[i].critic_steps)
          /\ Len(heap[Val(objs[i].critic_steps)]) < MaxCritics
          /\ heap' = [heap EXCEPT ![Val(objs[i].critic_steps)] = Append(@, c)]
    /\ ret' = NoCall
    /\ lastOp' = NoArgs("critic_steps.append")
    /\ UNCHANGED <<installs, step, memory, objs, failed>>

InstanceNext == PatchActionStep \/ ConstructInstance \/ AttachCritic

InstanceSpec == Init /\ [][InstanceNext]_vars

----------------------------------------------------------------------------
(* self.critic_steps of step *)
Critics == IF IsNone(step.critic_steps) THEN <<>> ELSE Val(step.critic_steps)

(* A critic step whose to_messages raises, and its repair.  failed records  *)
(* that a rendering of step raised out of a critic step.                    *)

FaultyCritics ==
    {CriticStep(None, None, None, None, Some(CriticReply), NoFeedback, FALSE, 1)}

(* step = ActionStep(...) *)
NewSampleStep ==
    /\ \E s \in SampleActionSteps : step' = Patched_init(installs, s)
    /\ failed' = FALSE
    /\ ret' = NoCall
    /\ lastOp' = NoArgs("ActionStep")
    /\ UNCHANGED <<installs, memory, objs, heap>>

(* step.critic_steps.append(CriticStep(feedback=None, ...)) *)
AppendFaultyCriticStep ==
    /\ step.kind = "ActionStep"
    /\ ~IsNone(step.critic_steps)
    /\ Len(Val(step.critic_steps)) < MaxCritics
    /\ \E c \in FaultyCritics :
          step' = [step EXCEPT !.critic_steps = Some(Append(Val(step.critic_steps), c))]
    /\ ret' = NoCall
    /\ lastOp' = NoArgs("critic_steps.append")
    /\ UNCHANGED <<installs, memory, objs, heap, failed>>

(* step.critic_steps[i].feedback = "abc" *)
FixCriticStep ==
    /\ step.kind = "ActionStep"
    /\ \E i \in 1..Len(Critics) :
          /\ Critics[i].feedback = NoFeedback
          /\ step' = [step EXCEPT !.critic_steps =
                          Some([Critics EXCEPT ![i].feedback = Feedback(3)])]
    /\ ret' = NoCall
    /\ lastOp' = NoArgs("setattr")
    /\ UNCHANGED <<installs, memory, objs, heap, failed>>

(* step.to_messages(summary_mode) *)
RenderStep ==
    /\ step.kind = "ActionStep"
    /\ \E summary_mode \in BOOLEAN :
          LET original == ActionStep_to_messages(step, summary_mode, FALSE)
              messages == Patched_to_messages(installs, step, summary_mode, None)
          IN  /\ ret' = messages
              /\ lastOp' = Call("to_messages", summary_mode, None)
              /\ failed' = (failed \/ (original.exc = "" /\ messages.exc # ""))
    /\ UNCHANGED <<installs, step, memory, objs, heap>>

FaultNext ==
    \/ PatchActionStep \/ NewSampleStep \/ AppendCriticStep
    \/ AppendFaultyCriticStep \/ FixCriticStep \/ RenderStep

FaultSpec == Init /\ [][FaultNext]_vars

----------------------------------------------------------------------------
(* What the claims speak of *)

(* The last call was step.to_messages(summary_mode) on an ActionStep, with  *)
(* no show_model_input_messages argument                                    *)
Rendered ==
    lastOp.op = "to_messages" /\ step.kind = "ActionStep" /\ IsNone(lastOp.show)

(* The rendering of the class as declared, for the arguments of the last call *)
Base ==
    ActionStep_to_messages(step, lastOp.summary_mode,
                           IF IsNone(lastOp.show) THEN FALSE ELSE Val(lastOp.show))

(* sub occurs in s as a contiguous run *)
Contains(s, sub) ==
    \E i \in 0..(Len(s) - Len(sub)) : SubSeq(s, i + 1, i + Len(sub)) = sub

StartsWith(s, pre) == Len(s) >= Len(pre) /\ SubSeq(s, 1, Len(pre)) = pre

HasTextParts(m) == m.content.form = "list"

(* The indices of the messages of msgs with the given role whose text holds tok *)
WithToken(msgs, role, tok) ==
    {i \in 1..Len(msgs) : msgs[i].role = role /\ Contains(MessageText(msgs[i]), <<tok>>)}

(* The messages the critic steps add, in a returned list: those with str content *)
CriticCount(msgs) == Cardinality({i \in 1..Len(msgs) : msgs[i].content.form = "str"})

----------------------------------------------------------------------------
(* C1: installing the extension is idempotent: however many times           *)
(* patch_action_step() has run, to_messages returns the base messages       *)
(* followed by one message per critic message of critic_steps (two critic   *)
(* steps of one message each give two critic messages, not four).           *)
C1_InstallIdempotent ==
    (Rendered /\ ret.exc = "")
        => /\ CriticCount(ret.val) = Len(CriticMessages(Critics, lastOp.summary_mode))
           /\ Len(ret.val) = Len(Base.val) + Len(CriticMessages(Critics, lastOp.summary_mode))

(* C2: every call valid on the declared ActionStep.to_messages keeps        *)
(* working after the install: with show_model_input_messages=True and       *)
(* input messages set the call returns and its first message is the SYSTEM  *)
(* message carrying the raw input-message list; with empty critic_steps the *)
(* result equals the base result for every combination of the two options.  *)
(* Stated of the single install the import of the module makes.             *)
C2_ExistingCallsKeepWorking ==
    (lastOp.op = "to_messages" /\ step.kind = "ActionStep" /\ installs = 1)
        => /\ (lastOp.show = Some(TRUE) /\ ~IsNone(step.model_input_messages)
               /\ Base.exc = "")
                  => /\ ret.exc = ""
                     /\ Len(ret.val) > 0
                     /\ ret.val[1] = Message(MessageRole.SYSTEM,
                                             RawContent(Val(step.model_input_messages)))
           /\ Critics = <<>> => ret = Base

(* C3: with observations set and no tool calls (None or an empty list)      *)
(* to_messages() returns, with exactly one TOOL_RESPONSE message for the    *)
(* observation, whose text includes the observation text and has no         *)
(* "Call id:" line; with a tool call the message names the first call's id. *)
(* Stated of the single install the import of the module makes.             *)
C3_ObservationWithoutToolCalls ==
    (Rendered /\ installs = 1 /\ ~IsNone(step.observations))
        => /\ ret.exc = ""
           /\ LET obs == WithToken(ret.val, MessageRole.TOOL_RESPONSE, "\nObservation:\n")
              IN  /\ Cardinality(obs) = 1
                  /\ \A i \in obs :
                        LET text == MessageText(ret.val[i])
                        IN  /\ Contains(text, Val(step.observations))
                            /\ IF Truthy(step.tool_calls)
                               THEN StartsWith(text, <<"Call id: ">>
                                                     \o Val(step.tool_calls)[1].id)
                               ELSE ~Contains(text, <<"Call id: ">>)

(* The step of C4: model_output set, one tool call, observations set, no    *)
(* error, no images, two critic steps, the first accepted and the second    *)
(* rejected, rendered with summary_mode=True                                *)
C4_Case ==
    /\ Rendered
    /\ lastOp.summary_mode
    /\ ~IsNone(step.model_output)
    /\ ~IsNone(step.tool_calls) /\ Len(Val(step.tool_calls)) = 1
    /\ ~IsNone(step.observations)
    /\ IsNone(step.error)
    /\ ~Truthy(step.observations_images)
    /\ Len(Critics) = 2 /\ Critics[1].accepted /\ ~Critics[2].accepted

C4_IsModelOutput(m) ==
    /\ m.role = MessageRole.ASSISTANT
    /\ HasTextParts(m)
    /\ MessageText(m) = strip(Val(step.model_output))

C4_IsToolCallDump(m) ==
    /\ m.role = MessageRole.ASSISTANT
    /\ HasTextParts(m)
    /\ StartsWith(MessageText(m), <<"Calling tools:\n">>)

C4_IsObservation(m) ==
    /\ m.role = MessageRole.TOOL_RESPONSE
    /\ Contains(MessageText(m), <<"\nObservation:\n">> \o Val(step.observations))

C4_IsCritic(m, status) ==
    /\ m.role = MessageRole.ASSISTANT
    /\ StartsWith(MessageText(m), <<"[Critic ", status, "] ">>)

(* C4 as stated, of the single install the import makes: the five messages, *)
(* the model output first                                                   *)
C4_ModelOutputFirst ==
    (C4_Case /\ installs = 1)
        => /\ ret.exc = ""
           /\ Len(ret.val) = 5
           /\ C4_IsModelOutput(ret.val[1])
           /\ C4_IsToolCallDump(ret.val[2])
           /\ C4_IsObservation(ret.val[3])
           /\ C4_IsCritic(ret.val[4], "ACCEPTED")
           /\ C4_IsCritic(ret.val[5], "REJECTED")

(* C4, amended: with summary_mode=True the model output is left out; the    *)
(* rendering starts with ASSISTANT(tool-call dump), TOOL_RESPONSE(           *)
(* observation), ASSISTANT("[Critic ACCEPTED] ..."), ASSISTANT("[Critic      *)
(* REJECTED] ..."), holds no model-output message, and these four are all    *)
(* of it when the extension is installed once, as the import leaves it.      *)
C4_SummaryOrder ==
    C4_Case
        => /\ ret.exc = ""
           /\ Len(ret.val) >= 4
           /\ C4_IsToolCallDump(ret.val[1])
           /\ C4_IsObservation(ret.val[2])
           /\ C4_IsCritic(ret.val[3], "ACCEPTED")
           /\ C4_IsCritic(ret.val[4], "REJECTED")
           /\ \A i \in 1..Len(ret.val) : ~C4_IsModelOutput(ret.val[i])
           /\ installs = 1 => Len(ret.val) = 4

C4_Witness == C4_Case /\ ret.exc = "" /\ installs = 1 /\ Len(ret.val) = 4

(* C5: the patched rendering is the base rendering followed by the          *)
(* concatenation, in critic_steps order, of each critic step's              *)
(* to_messages(summary_mode): no critic message before a base message, none *)
(* of an earlier critic step after one of a later critic step.              *)
C5_BaseThenCriticsInOrder ==
    (Rendered /\ ret.exc = "")
        => ret.val = Base.val \o CriticMessages(Critics, lastOp.summary_mode)

----------------------------------------------------------------------------
(* C6: after any appends and resets, get_succinct_steps() and               *)
(* get_full_steps() return one record per step, in steps order; no succinct *)
(* record has the key model_input_messages and every other key and value of *)
(* the step's dict() is kept; the full record of a step that has            *)
(* model_input_messages set has that key.                                   *)
HasInputMessages(s) ==
    /\ "model_input_messages" \in DOMAIN s
    /\ s.kind = "ActionStep" => ~IsNone(s.model_input_messages)

C6_SuccinctDropsInputMessages ==
    /\ lastOp.op = "get_succinct_steps"
          => /\ ret.exc = ""
             /\ Len(ret.val) = Len(memory.steps)
             /\ \A i \in 1..Len(memory.steps) :
                   LET d == Dict(memory.steps[i])
                   IN  /\ "model_input_messages" \notin DOMAIN ret.val[i]
                       /\ DOMAIN ret.val[i] = DOMAIN d \ {"model_input_messages"}
                       /\ \A key \in DOMAIN ret.val[i] : ret.val[i][key] = d[key]
    /\ lastOp.op = "get_full_steps"
          => /\ ret.exc = ""
             /\ Len(ret.val) = Len(memory.steps)
             /\ \A i \in 1..Len(memory.steps) :
                   /\ ret.val[i] = Dict(memory.steps[i])
                   /\ HasInputMessages(memory.steps[i])
                         => /\ "model_input_messages" \in DOMAIN ret.val[i]
                            /\ ret.val[i].model_input_messages
                                  = memory.steps[i].model_input_messages

C6_Witness ==
    /\ lastOp.op = "get_succinct_steps"
    /\ Len(ret.val) = 2
    /\ HasInputMessages(memory.steps[1])
    /\ memory.steps[1].kind = "ActionStep"
    /\ memory.steps[2].kind = "PlanningStep"

(* C7: reset(), in any state, empties steps and leaves system_prompt, the   *)
(* SystemPromptStep fixed at construction, unchanged; system_prompt is      *)
(* never an element of steps; a get_full_steps() right after a reset        *)
(* returns an empty sequence.                                               *)
C7_ResetKeepsSystemPrompt ==
    /\ [](/\ memory.system_prompt.kind = "SystemPromptStep"
          /\ \A i \in 1..Len(memory.steps) : memory.steps[i] # memory.system_prompt)
    /\ [][/\ memory'.system_prompt = memory.system_prompt
          /\ lastOp'.op = "reset" => memory'.steps = <<>>
          /\ (lastOp.op = "reset" /\ lastOp'.op = "get_full_steps") => ret'.val = <<>>]_vars

C7_Witness ==
    /\ lastOp.op = "reset"
    /\ lastOp.held = 2
    /\ memory.steps = <<>>
    /\ memory.system_prompt = SystemPromptStep(<<"q">>)

----------------------------------------------------------------------------
(* The last call was to_messages(summary_mode) on a CriticStep *)
CriticRendered == lastOp.op = "to_messages" /\ step.kind = "CriticStep"

CriticPrefix == <<"[Critic ", IF step.accepted THEN "ACCEPTED" ELSE "REJECTED", "] ">>

(* The summary message of C8: one ASSISTANT message, the prefix, then the   *)
(* first 200 characters and an ellipsis if the feedback is longer than 200, *)
(* the feedback itself otherwise                                            *)
C8_Summary ==
    /\ Len(ret.val) = 1
    /\ ret.val[1].role = MessageRole.ASSISTANT
    /\ LET text == MessageText(ret.val[1])
           body == SubSeq(text, Len(CriticPrefix) + 1, Len(text))
       IN  /\ StartsWith(text, CriticPrefix)
           /\ IF Len(step.feedback) > 200
              THEN /\ Len(body) = 201
                   /\ \A i \in 1..200 : body[i] = step.feedback[i]
                   /\ body[201] = "..."
              ELSE body = step.feedback

(* C8 as stated: in full mode the feedback appears verbatim in the output *)
C8_FullModeAlwaysShowsFeedback ==
    CriticRendered
        => IF lastOp.summary_mode
           THEN C8_Summary
           ELSE Len(step.feedback) > 200
                   => \E i \in 1..Len(ret.val) :
                         Contains(MessageText(ret.val[i]), step.feedback)

(* C8, amended: in full mode a critic step with a model output message      *)
(* renders one ASSISTANT message, "[Critic Review] " and the whole feedback; *)
(* one without a model output message renders no message.                   *)
C8_TruncatesAt200 ==
    CriticRendered
        => IF lastOp.summary_mode
           THEN C8_Summary
           ELSE IF Truthy(step.model_output_message)
                THEN /\ Len(ret.val) = 1
                     /\ ret.val[1].role = MessageRole.ASSISTANT
                     /\ MessageText(ret.val[1]) = <<"[Critic Review] ">> \o step.feedback
                ELSE ret.val = <<>>

C8_Witness ==
    /\ CriticRendered
    /\ lastOp.summary_mode
    /\ Len(step.feedback) = 201
    /\ Len(MessageText(ret.val[1])) = Len(CriticPrefix) + 201

----------------------------------------------------------------------------
(* The fields each step kind declares *)
DeclaredFields(kind) ==
    CASE kind = "SystemPromptStep" -> {"system_prompt"}
      [] kind = "TaskStep" -> {"task", "task_images"}
      [] kind = "PlanningStep" ->
             {"model_input_messages", "model_output_message_facts", "facts",
              "model_output_message_plan", "plan"}
      [] kind = "CriticStep" ->
             {"start_time", "end_time", "duration", "model_input_messages",
              "model_output_message", "feedback", "accepted"}
      [] OTHER -> {}

ActionStepKeys ==
    {"model_input_messages", "tool_calls", "start_time", "end_time", "step", "error",
     "duration", "model_output_message", "model_output", "observations", "action_output"}

(* C9: for all five step kinds dict() returns a record with every declared  *)
(* field as a key; for ActionStep the keys are exactly the fixed set, with  *)
(* step_number under the key step; for CriticStep the record has start_time, *)
(* end_time, duration, model_input_messages, model_output_message, feedback *)
(* and accepted.                                                            *)
C9_DictHasDeclaredKeys ==
    lastOp.op = "dict"
        => /\ ret.exc = ""
           /\ Len(ret.val) = 1
           /\ IF step.kind = "ActionStep"
              THEN /\ DOMAIN ret.val[1] = ActionStepKeys
                   /\ ret.val[1].step = step.step_number
              ELSE DeclaredFields(step.kind) \subseteq DOMAIN ret.val[1]

(* C10: with error set, to_messages() has exactly one TOOL_RESPONSE message *)
(* for the error; its text is a "Call id: <first id>" line if and only if a *)
(* tool call exists, then the error's string form and the retry guidance;   *)
(* the call never raises, with tool_calls None, empty or not.               *)
(* Stated of the single install the import of the module makes.             *)
C10_ErrorRendering ==
    (Rendered /\ installs = 1 /\ ~IsNone(step.error))
        => /\ ret.exc = ""
           /\ LET errs == WithToken(ret.val, MessageRole.TOOL_RESPONSE, "Error:\n")
              IN  /\ Cardinality(errs) = 1
                  /\ \A i \in errs :
                        MessageText(ret.val[i]) =
                            (IF Truthy(step.tool_calls)
                             THEN <<"Call id: ">> \o Val(step.tool_calls)[1].id \o <<"\n">>
                             ELSE <<>>)
                            \o <<"Error:\n">> \o AgentError_str(Val(step.error))
                            \o <<RetrySuffix>>

----------------------------------------------------------------------------
(* C11: every ActionStep instance has a critic_steps field, an empty list   *)
(* when the instance is made, whenever the instance is made (the import of  *)
(* the module installs the extension, so no instance is older than it); the *)
(* list is the instance's own: an append to one instance's critic_steps     *)
(* changes no other instance's critic_steps.                                *)
C11_CriticStepsPerInstance ==
    /\ [](/\ installs >= 1
          /\ \A i \in 1..Len(objs) :
                /\ ~IsNone(objs[i].critic_steps)
                /\ Val(objs[i].critic_steps) \in 1..Len(heap)
                /\ \A j \in 1..Len(objs) :
                      j # i => Val(objs[j].critic_steps) # Val(objs[i].critic_steps))
    /\ [][/\ Len(objs') > Len(objs)
                => heap'[Val(objs'[Len(objs')].critic_steps)] = <<>>
          /\ \A i \in 1..Len(objs) :
                heap'[Val(objs'[i].critic_steps)] # heap[Val(objs[i].critic_steps)]
                    => /\ lastOp'.op = "critic_steps.append"
                       /\ \A j \in 1..Len(objs) :
                             j # i => heap'[Val(objs'[j].critic_steps)]
                                         = heap[Val(objs[j].critic_steps)]]_vars

C11_Witness ==
    /\ lastOp.op = "critic_steps.append"
    /\ Len(objs) = 2
    /\ Len(heap[Val(objs[1].critic_steps)]) = 2
    /\ heap[Val(objs[2].critic_steps)] = <<>>
    /\ installs = 2

----------------------------------------------------------------------------
(* C12: a summary leaves the verbose fields out.  With summary_mode=True    *)
(* SystemPromptStep renders no message, PlanningStep one ASSISTANT message  *)
(* (facts, no plan), ActionStep no message carrying model_output; with      *)
(* summary_mode=False they render one SYSTEM message with the trimmed       *)
(* prompt, two ASSISTANT messages (facts, then plan), and, whenever         *)
(* model_output is set, an ASSISTANT message with the trimmed model_output  *)
(* placed before the tool-call message.                                     *)
(* Stated of the single install the import of the module makes.             *)
C12_IsText(m, role, text) ==
    m.role = role /\ HasTextParts(m) /\ Len(m.content.parts) = 1 /\ MessageText(m) = text

C12_SummaryOmitsVerboseFields ==
    (lastOp.op = "to_messages" /\ IsNone(lastOp.show) /\ installs = 1)
        => CASE step.kind = "SystemPromptStep" ->
                    IF lastOp.summary_mode
                    THEN ret.exc = "" /\ ret.val = <<>>
                    ELSE /\ ret.exc = ""
                         /\ Len(ret.val) = 1
                         /\ C12_IsText(ret.val[1], MessageRole.SYSTEM,
                                       strip(step.system_prompt))
             [] step.kind = "PlanningStep" ->
                    /\ ret.exc = ""
                    /\ Len(ret.val) = IF lastOp.summary_mode THEN 1 ELSE 2
                    /\ C12_IsText(ret.val[1], MessageRole.ASSISTANT,
                                  <<"[FACTS LIST]:\n">> \o strip(step.facts))
                    /\ ~lastOp.summary_mode
                          => C12_IsText(ret.val[2], MessageRole.ASSISTANT,
                                        <<"[PLAN]:\n">> \o strip(step.plan))
             [] step.kind = "ActionStep" ->
                    IF lastOp.summary_mode
                    THEN ~IsNone(step.model_output)
                            => \A i \in 1..Len(ret.val) :
                                  MessageText(ret.val[i]) # strip(Val(step.model_output))
                    ELSE ~IsNone(step.model_output)
                            => /\ ret.exc = ""
                               /\ \E i \in 1..Len(ret.val) :
                                     /\ C12_IsText(ret.val[i], MessageRole.ASSISTANT,
                                                   strip(Val(step.model_output)))
                                     /\ \A j \in 1..Len(ret.val) :
                                           C4_IsToolCallDump(ret.val[j]) => i < j
             [] OTHER -> TRUE

----------------------------------------------------------------------------
(* C13: when a critic step's to_messages raises, the patched to_messages    *)
(* propagates that same error (no partial list is returned) and leaves the  *)
(* step as it was, so that a later rendering, once the faulty critic step   *)
(* is repaired, returns the full sequence: the base messages, then the      *)
(* messages of each critic step once, none duplicated and none missing.     *)
C13_Raises(critic_steps, summary_mode) ==
    \E i \in 1..Len(critic_steps) : CriticStep_call(critic_steps[i], summary_mode).exc # ""

C13_FaultyCriticStep ==
    /\ (Rendered /\ Base.exc = "" /\ C13_Raises(Critics, lastOp.summary_mode))
          => ret = Raised("TypeError")
    /\ (Rendered /\ failed /\ Base.exc = "" /\ \A m \in BOOLEAN : ~C13_Raises(Critics, m))
          => ret = Returned(Base.val \o CriticMessages(Critics, lastOp.summary_mode))

====
